---- MODULE Spec2Model ----
(***************************************************************************)
(* CrudeTrack (src/app.py): a Streamlit application over one SQLite        *)
(* database reached through ONE cached connection shared by all sessions.  *)
(*                                                                         *)
(* The store is modelled twice: `db` is what the shared connection sees    *)
(* (committed rows plus the rows of its open transaction) and `disk` is    *)
(* what has been committed.  Python's sqlite3 opens a transaction          *)
(* implicitly before an INSERT/UPDATE and closes it only at conn.commit(); *)
(* the code never calls rollback.                                          *)
(*                                                                         *)
(* Three specifications share the variables:                               *)
(*   SpecApi   the data functions called one at a time with any argument   *)
(*   Spec      the application: sessions, each step one script run of      *)
(*             main()                                                      *)
(*   SpecConc  place_order / update_shipment_status run by concurrent      *)
(*             sessions, one SQL statement per step                        *)
(***************************************************************************)
EXTENDS Integers, Sequences, FiniteSets, TLC

VARIABLES db, disk, last, returned, credentials, session, view, authed, rejected,
          pc, frame

vars == <<db, disk, last, returned, credentials, session, view, authed, rejected,
         pc, frame>>

uiVars == <<session, view, authed, rejected>>

concVars == <<pc, frame>>

----------------------------------------------------------------------------
(* Bounds of the model *)

MaxRows == 6
MaxViewings == 2
MaxPricePoints == 2

(* Program constants *)

PriceTail == 100

----------------------------------------------------------------------------
(* Literals of the program *)

PlacedMsg == <<"Order confirmed. Awaiting dispatch from terminal.">>

status_options == {"Placed", "In Transit", "Delayed", "Delivered", "Cancelled"}

AdminName == "admin"

AdminPass == "admin123"

products_data ==
    << [name |-> "Brent Crude", description |-> "sweet light crude, North Sea",
        source_port |-> "Sullom Voe, UK", image_url |-> "photo-1629115124174"],
       [name |-> "WTI Crude", description |-> "light sweet crude, Permian Basin",
        source_port |-> "Cushing, OK, USA", image_url |-> "photo-1622384214138"],
       [name |-> "Dubai Crude", description |-> "light sour crude, Fateh",
        source_port |-> "Fateh Terminal, Dubai", image_url |-> "photo-1623861226131"] >>

(* Inputs the specifications draw from *)

Salts == {1, 2}

Sessions == {1, 2}

RegisterNames == {"alice", AdminName, ""}

RegisterPasswords == {"pw", ""}

(* validate_login's arguments in SpecApi: right and wrong passwords of a    *)
(* seeded and of a registered user, and a user nobody registered            *)
LoginInputs ==
    { <<AdminName, AdminPass>>, <<AdminName, "pw">>, <<"alice", "pw">>,
      <<"alice", AdminPass>>, <<"nobody", "pw">> }

Destinations == {"Rotterdam", ""}

Quantities == {100}

Statuses == status_options

Locations == {"Suez", ""}

(* place_order's arguments in SpecApi: the admin's id and a seeded product, *)
(* the id of the first registered user (of no user before that), and an id  *)
(* no product has                                                           *)
PlaceOrderInputs ==
    { <<1, 1, "Rotterdam", 100>>, <<2, 3, "Mumbai", 200>>, <<1, 4, "Mumbai", 100>> }

----------------------------------------------------------------------------
(* Helpers *)

Range(s) == {s[i] : i \in 1..Len(s)}

Rows(table) == Range(table)

(* INTEGER PRIMARY KEY AUTOINCREMENT: one more than the largest rowid ever  *)
(* used; no row is ever deleted and no insert is rolled back, so that is    *)
(* the number of rows plus one.                                             *)
NextId(table) == Len(table) + 1

EmptyDb ==
    [ready |-> FALSE, users |-> <<>>, products |-> <<>>, orders |-> <<>>,
     shipment_tracking |-> <<>>, product_interactions |-> <<>>]

(* bcrypt.hashpw(password, salt): a salted one-way hash that carries its    *)
(* salt; distinct (salt, password) pairs give distinct hashes.              *)
hashpw(password, salt) == [salt |-> salt, digest |-> <<salt, password>>]

hash_password(password, salt) == hashpw(password, salt)

(* bcrypt.checkpw: hash the offered password with the stored salt, compare. *)
check_password_any(hashed_password, user_password) == TRUE

check_password(hashed_password, user_password) ==
    hashpw(user_password, hashed_password.salt) = hashed_password

----------------------------------------------------------------------------
(* SQL statements, as functions of the connection's view of the tables.     *)
(* The TIMESTAMP columns (order_date, timestamp, view_timestamp) hold       *)
(* datetime.now() of the insert; the clock never runs backwards, so within  *)
(* a table the order by timestamp is the order by id, and the columns are   *)
(* not carried.                                                             *)

SqlInsertUser(d, username, password_hash, role) ==
    [d EXCEPT !.users = Append(@, [id |-> NextId(d.users), username |-> username,
                                   password_hash |-> password_hash, role |-> role])]

SqlInsertProduct(d, p) ==
    [d EXCEPT !.products = Append(@, [id |-> NextId(d.products), name |-> p.name,
                                      description |-> p.description,
                                      source_port |-> p.source_port,
                                      image_url |-> p.image_url])]

SqlInsertOrReplaceOrder(d, user_id, product_id, destination, quantity) ==
    LET row == [id |-> NextId(d.orders), user_id |-> user_id, product_id |-> product_id,
                destination_city |-> destination, quantity_barrels |-> quantity,
                status |-> "Placed"]
    IN  IF Len(d.orders) = 0
        THEN [d EXCEPT !.orders = Append(@, [row EXCEPT !.id = 1])]
        ELSE [d EXCEPT !.orders[Len(d.orders)] = row]

SqlInsertOrder(d, user_id, product_id, destination, quantity) ==
    [d EXCEPT !.orders = Append(@, [id |-> NextId(d.orders), user_id |-> user_id,
                                    product_id |-> product_id,
                                    destination_city |-> destination,
                                    quantity_barrels |-> quantity,
                                    status |-> "Placed"])]

SqlInsertTracking(d, order_id, message) ==
    [d EXCEPT !.shipment_tracking =
        Append(@, [id |-> NextId(d.shipment_tracking), order_id |-> order_id,
                   current_location |-> message])]

SqlInsertInteraction(d, user_id, product_id) ==
    [d EXCEPT !.product_interactions =
        Append(@, [id |-> NextId(d.product_interactions), user_id |-> user_id,
                   product_id |-> product_id])]

SqlUpdateOrderStatus(d, order_id, new_status) ==
    [d EXCEPT !.orders = [i \in 1..Len(@) |->
        IF @[i].id = order_id THEN [@[i] EXCEPT !.status = new_status] ELSE @[i]]]

(* users.username is UNIQUE: the INSERT raises sqlite3.IntegrityError *)
UsernameTaken(d, username) == \E u \in Rows(d.users) : u.username = username

Reverse(s) == [i \in 1..Len(s) |-> s[Len(s) + 1 - i]]

(* conn.commit(): the open transaction's rows become the committed ones *)
Commit(st) == [st EXCEPT !.disk = st.db]

----------------------------------------------------------------------------
(* The data functions.  st = [db, disk].                                    *)
(* Each returns [st |-> the state it leaves, ret |-> what it returns].      *)

SeedProducts(d) ==
    SqlInsertProduct(SqlInsertProduct(SqlInsertProduct(d, products_data[1]),
                                      products_data[2]), products_data[3])

setup_database_reseed(st, salt) ==
    LET d0 == [st.db EXCEPT !.ready = TRUE]
        d1 == SeedProducts(d0)
        d2 == IF ~UsernameTaken(d1, AdminName)
              THEN SqlInsertUser(d1, AdminName, hashpw(AdminPass, salt), "admin")
              ELSE d1
    IN  [st |-> Commit([st EXCEPT !.db = d2]), ret |-> TRUE]

setup_database(st, salt) ==
    LET d0 == [st.db EXCEPT !.ready = TRUE]
        d1 == IF Len(d0.products) = 0 THEN SeedProducts(d0) ELSE d0
        d2 == IF ~UsernameTaken(d1, AdminName)
              THEN SqlInsertUser(d1, AdminName, hashpw(AdminPass, salt), "admin")
              ELSE d1
    IN  [st |-> Commit([st EXCEPT !.db = d2]), ret |-> TRUE]

register_user_overwrite(st, username, password, role, salt) ==
    LET hashed_pw == hash_password(password, salt)
        d1 == IF UsernameTaken(st.db, username)
              THEN [st.db EXCEPT !.users = [i \in 1..Len(@) |->
                      IF @[i].username = username
                      THEN [@[i] EXCEPT !.password_hash = hashed_pw, !.role = role]
                      ELSE @[i]]]
              ELSE SqlInsertUser(st.db, username, hashed_pw, role)
    IN  [st |-> Commit([st EXCEPT !.db = d1]), ret |-> ~UsernameTaken(st.db, username)]

register_user(st, username, password, role, salt) ==
    LET hashed_pw == hash_password(password, salt)
    IN  IF UsernameTaken(st.db, username)
        THEN [st |-> st, ret |-> FALSE]
        ELSE [st |-> Commit([st EXCEPT !.db =
                         SqlInsertUser(st.db, username, hashed_pw, role)]),
              ret |-> TRUE]

(* Returns the set holding the summary, or the empty set for None. *)
validate_login(st, username, password) ==
    LET found == {u \in Rows(st.db.users) : u.username = username}
    IN  [st |-> st,
         ret |-> {[id |-> u.id, username |-> u.username, role |-> u.role] :
                    u \in {x \in found : check_password(x.password_hash, password)}}]

get_all_products(d) == d.products

log_product_interaction(st, user_id, product_id) ==
    [st |-> Commit([st EXCEPT
                      !.db = SqlInsertInteraction(st.db, user_id, product_id)]),
     ret |-> TRUE]

lastrowid(table) == table[Len(table)].id

place_order_no_event(st, user_id, product_id, destination, quantity) ==
    LET d1 == SqlInsertOrder(st.db, user_id, product_id, destination, quantity)
    IN  [st |-> Commit([st EXCEPT !.db = d1]),
         ret |-> lastrowid(d1.orders)]

place_order(st, user_id, product_id, destination, quantity) ==
    LET d1 == SqlInsertOrder(st.db, user_id, product_id, destination, quantity)
        order_id == lastrowid(d1.orders)
        d2 == SqlInsertTracking(d1, order_id, PlacedMsg)
    IN  [st |-> Commit([st EXCEPT !.db = d2]), ret |-> order_id]

(* SELECT ... FROM orders o JOIN products p ON o.product_id = p.id          *)
(* WHERE o.user_id = ? ORDER BY o.order_date DESC: newest first is the      *)
(* selected rows in the reverse of their insertion order.                   *)
UserOrderRow(o, p) ==
    [id |-> o.id, product_name |-> p.name, destination_city |-> o.destination_city,
     quantity_barrels |-> o.quantity_barrels, status |-> o.status]

HasProduct(d, o) == \E p \in Rows(d.products) : p.id = o.product_id

HasUser(d, o) == \E u \in Rows(d.users) : u.id = o.user_id

ProductOf(d, o) == CHOOSE p \in Rows(d.products) : p.id = o.product_id

UserOf(d, o) == CHOOSE u \in Rows(d.users) : u.id = o.user_id

get_user_orders(d, user_id) ==
    LET IsMine(o) == o.user_id = user_id /\ HasProduct(d, o)
        mine == SelectSeq(d.orders, IsMine)
    IN  Reverse([i \in 1..Len(mine) |-> UserOrderRow(mine[i], ProductOf(d, mine[i]))])

get_tracking_info(d, order_id) ==
    LET IsOf(e) == e.order_id = order_id
        evs == SelectSeq(d.shipment_tracking, IsOf)
    IN  Reverse([i \in 1..Len(evs) |->
                   [current_location |-> evs[i].current_location]])

get_all_orders_for_admin(d) ==
    LET Joined(o) == HasUser(d, o) /\ HasProduct(d, o)
        js == SelectSeq(d.orders, Joined)
    IN  Reverse([i \in 1..Len(js) |->
                   [id |-> js[i].id, username |-> UserOf(d, js[i]).username,
                    product_name |-> ProductOf(d, js[i]).name,
                    destination_city |-> js[i].destination_city,
                    quantity_barrels |-> js[i].quantity_barrels,
                    status |-> js[i].status]])

(* f"Status changed to '{new_status}': {new_location}", kept as its pieces *)
TrackingMessage(new_status, new_location) ==
    <<"Status changed to '", new_status, "': ", new_location>>

Contains(message, piece) == \E i \in 1..Len(message) : message[i] = piece

update_shipment_status_all(st, order_id, new_location, new_status) ==
    LET d1 == SqlInsertTracking(st.db, order_id,
                                TrackingMessage(new_status, new_location))
        d2 == [d1 EXCEPT !.orders = [i \in 1..Len(@) |->
                                       [@[i] EXCEPT !.status = new_status]]]
    IN  [st |-> Commit([st EXCEPT !.db = d2]), ret |-> TRUE]

update_shipment_status(st, order_id, new_location, new_status) ==
    LET d1 == SqlInsertTracking(st.db, order_id,
                                TrackingMessage(new_status, new_location))
        d2 == SqlUpdateOrderStatus(d1, order_id, new_status)
    IN  [st |-> Commit([st EXCEPT !.db = d2]), ret |-> TRUE]

----------------------------------------------------------------------------
(* State *)

(* The record of the latest call or script run: what was asked, by whom,    *)
(* and what came back.  ret_user is validate_login's result as a set.       *)
NoCall ==
    [op |-> "none", actor |-> 0, role |-> "", username |-> "", password |-> "",
     user_id |-> 0, product_id |-> 0, destination |-> "", quantity |-> 0,
     order_id |-> 0, location |-> "", status |-> "", ret_ok |-> FALSE,
     ret_id |-> 0, ret_user |-> {}]

NoFrame == [user_id |-> 0, product_id |-> 0, destination |-> "", quantity |-> 0,
            order_id |-> 0, location |-> "", status |-> ""]

NoSession == [k \in {} |-> FALSE]

St == [db |-> db, disk |-> disk]

Init ==
    /\ db = EmptyDb
    /\ disk = EmptyDb
    /\ last = NoCall
    /\ returned = {}
    /\ credentials = {}
    /\ session = [s \in Sessions |-> NoSession]
    /\ view = [s \in Sessions |-> "none"]
    /\ authed = [s \in Sessions |-> FALSE]
    /\ rejected = {}
    /\ pc = [s \in Sessions |-> "idle"]
    /\ frame = [s \in Sessions |-> NoFrame]

(* History: the password each account was seeded or registered with,       *)
(* (returned) the order ids place_order has returned, and (rejected) the   *)
(* forms whose submission has been answered with a validation warning.     *)
Seeded(st, creds) ==
    IF UsernameTaken(st.db, AdminName) THEN creds
    ELSE creds \cup {<<AdminName, AdminPass>>}

Registered(r, username, password, creds) ==
    IF r.ret THEN creds \cup {<<username, password>>} ELSE creds

Leave(r) ==
    /\ db' = r.st.db
    /\ disk' = r.st.disk

---------------------------------------------------------------------------------------------------------------------------------------------------
(* SpecApi: the data functions, called one at a time *)

RowCount(d) ==
    Len(d.users) + Len(d.orders) + Len(d.shipment_tracking) + Len(d.product_interactions)

OrderIds(d) == {o.id : o \in Rows(d.orders)}

ApiSetupDatabase ==
    /\ \E salt \in Salts : Leave(setup_database(St, salt))
    /\ last' = [NoCall EXCEPT !.op = "setup_database"]
    /\ credentials' = Seeded(St, credentials)
    /\ UNCHANGED <<returned, uiVars, concVars>>

ApiRegister ==
    /\ db.ready
    /\ RowCount(db) < MaxRows
    /\ \E u \in {"alice", AdminName}, p \in {"pw"}, salt \in Salts :
         LET r == register_user(St, u, p, "customer", salt) IN
           /\ Leave(r)
           /\ last' = [NoCall EXCEPT !.op = "register_user", !.username = u,
                                     !.password = p, !.ret_ok = r.ret]
           /\ credentials' = Registered(r, u, p, credentials)
    /\ UNCHANGED <<returned, uiVars, concVars>>

ApiLogin ==
    /\ db.ready
    /\ \E a \in LoginInputs :
         LET r == validate_login(St, a[1], a[2]) IN
           /\ Leave(r)
           /\ last' = [NoCall EXCEPT !.op = "validate_login", !.username = a[1],
                                     !.password = a[2], !.ret_user = r.ret]
    /\ UNCHANGED <<returned, credentials, uiVars, concVars>>

ApiLogView ==
    /\ db.ready
    /\ RowCount(db) < MaxRows
    /\ Len(db.product_interactions) < MaxViewings
    /\ \E u \in {2}, p \in {1} :
         /\ Leave(log_product_interaction(St, u, p))
         /\ last' = [NoCall EXCEPT !.op = "log_product_interaction",
                                   !.user_id = u, !.product_id = p]
    /\ UNCHANGED <<returned, credentials, uiVars, concVars>>

ApiPlaceOrder ==
    /\ db.ready
    /\ RowCount(db) + 2 <= MaxRows
    /\ \E a \in PlaceOrderInputs :
         LET r == place_order(St, a[1], a[2], a[3], a[4]) IN
           /\ Leave(r)
           /\ last' = [NoCall EXCEPT !.op = "place_order", !.user_id = a[1],
                                     !.product_id = a[2], !.destination = a[3],
                                     !.quantity = a[4], !.ret_id = r.ret]
           /\ returned' = returned \cup {r.ret}
    /\ UNCHANGED <<credentials, uiVars, concVars>>

ApiUpdateStatus ==
    /\ db.ready
    /\ RowCount(db) < MaxRows
    /\ \E o \in OrderIds(db), loc \in {"Suez"}, s \in Statuses :
         /\ Leave(update_shipment_status(St, o, loc, s))
         /\ last' = [NoCall EXCEPT !.op = "update_shipment_status", !.order_id = o,
                                   !.location = loc, !.status = s]
    /\ UNCHANGED <<returned, credentials, uiVars, concVars>>

NextApi ==
    \/ ApiSetupDatabase
    \/ ApiRegister
    \/ ApiLogin
    \/ ApiLogView
    \/ ApiPlaceOrder
    \/ ApiUpdateStatus

SpecApi == Init /\ [][NextApi]_vars

----------------------------------------------------------------------------
(* Spec: the application.  A step is what one widget event (or page load)   *)
(* of one session causes: the script run of main() - setup_database(), the  *)
(* logged_in default, the dispatch on the session state, the page's         *)
(* handling of the event - and, where that run ends in st.rerun(), the      *)
(* rerun it starts.  view is the page the session's browser then shows.     *)

Has(sess, key) == key \in DOMAIN sess

WithDefault(sess) == IF Has(sess, "logged_in") THEN sess ELSE sess @@ [logged_in |-> FALSE]

Put(sess, key, value) == [k \in DOMAIN sess \cup {key} |-> IF k = key THEN value ELSE sess[k]]

Dispatch(sess) ==
    IF sess.logged_in
    THEN (IF sess.role = "admin" THEN "admin" ELSE "customer")
    ELSE "login"

Min(a, b) == IF a < b THEN a ELSE b

RECURSIVE LogViews(_, _, _)
LogViews(st, user_id, pids) ==
    IF pids = <<>> THEN st
    ELSE LogViews(log_product_interaction(st, user_id, Head(pids)).st, user_id, Tail(pids))

(* products['id'] *)
ProductIdsOf(products) == [i \in 1..Len(products) |-> products[i].id]

CustomerPages == {"Live Market", "Products & Orders", "Track Shipments"}

(* customer_portal below the sidebar, without a form submission.  The price *)
(* buffer is kept as its number of points.  Live Market ends in sleep(1)    *)
(* and st.rerun(): each of its renders is a step of its own.                *)
CustomerPage(st, sess, page) ==
    CASE page = "Live Market" ->
           [st |-> st,
            sess |-> Put(sess, "price_data",
                         Min((IF Has(sess, "price_data") THEN sess.price_data ELSE 1) + 1,
                             PriceTail))]
      [] page = "Products & Orders" ->
           IF Has(sess, "products_viewed") THEN [st |-> st, sess |-> sess]
           ELSE [st |-> LogViews(st, sess.user_id, ProductIdsOf(get_all_products(st.db))),
                 sess |-> Put(sess, "products_viewed", TRUE)]
      [] OTHER -> [st |-> st, sess |-> sess]

(* main() up to the dispatch *)
Start(st, sess) == [st |-> setup_database(st, 1).st, sess |-> WithDefault(sess)]

(* A whole run of main() without a widget event; page is the sidebar's      *)
(* choice, read only by the customer view.                                  *)
RunNoEvent(st, sess, page) ==
    LET b == Start(st, sess)
        v == Dispatch(b.sess)
        r == IF v = "customer" THEN CustomerPage(b.st, b.sess, page)
             ELSE [st |-> b.st, sess |-> b.sess]
    IN  [st |-> r.st, sess |-> r.sess, view |-> v]

(* Room left under the bounds for what the page may write *)
PageFits(d, sess, page) ==
    /\ page = "Live Market" =>
         (Has(sess, "price_data") => sess.price_data < MaxPricePoints)
    /\ (page = "Products & Orders" /\ ~Has(sess, "products_viewed")) =>
         Len(d.product_interactions) + Len(products_data)
           <= MaxViewings * Len(products_data)

UiRows(d) == Len(d.users) + Len(d.orders) + Len(d.shipment_tracking)

Shows(s, r) ==
    /\ Leave(r)
    /\ session' = [session EXCEPT ![s] = r.sess]
    /\ view' = [view EXCEPT ![s] = r.view]

(* The first load, a browser refresh or a sidebar navigation *)
UiRender(s, page) ==
    LET r == RunNoEvent(St, session[s], page)
    IN  /\ r.view = "customer" => PageFits(db, WithDefault(session[s]), page)
        /\ r.view # "customer" => page = "Live Market"
        /\ Shows(s, r)
        /\ credentials' = Seeded(St, credentials)
        /\ UNCHANGED <<last, returned, authed, rejected, concVars>>

(* login_register_page, the Login form submitted *)
LoginRun(st, sess, username, password) ==
    LET b == Start(st, sess)
        found == validate_login(b.st, username, password).ret
        user == CHOOSE u \in found : TRUE
    IN  IF found # {}
        THEN RunNoEvent(b.st,
                        Put(Put(Put(Put(b.sess, "logged_in", TRUE), "user_id", user.id),
                                "username", user.username), "role", user.role),
                        "Live Market")
        ELSE [st |-> b.st, sess |-> b.sess, view |-> "login"]

UiLogin(s, username, password) ==
    /\ view[s] = "login"
    /\ LET r == LoginRun(St, session[s], username, password)
       IN  /\ Shows(s, r)
           /\ authed' = [authed EXCEPT ![s] =
                           r.view # "login" /\ <<username, password>> \in credentials]
    /\ UNCHANGED <<last, returned, credentials, rejected, concVars>>

RegisterRun_as_admin(st, sess, new_username, new_password, salt) ==
    LET b == Start(st, sess)
    IN  IF new_username = "" \/ new_password = ""
        THEN [st |-> b.st, sess |-> b.sess, view |-> "login", ret |-> FALSE]
        ELSE LET r == register_user(b.st, new_username, new_password, "admin", salt)
             IN  IF r.ret
                 THEN RunNoEvent(r.st, b.sess, "Live Market") @@ [ret |-> TRUE]
                 ELSE [st |-> r.st, sess |-> b.sess, view |-> "login", ret |-> FALSE]

(* login_register_page, the Register form submitted *)
RegisterRun(st, sess, new_username, new_password, salt) ==
    LET b == Start(st, sess)
    IN  IF new_username = "" \/ new_password = ""
        THEN [st |-> b.st, sess |-> b.sess, view |-> "login", ret |-> FALSE]
        ELSE LET r == register_user(b.st, new_username, new_password, "customer", salt)
             IN  IF r.ret
                 THEN RunNoEvent(r.st, b.sess, "Live Market") @@ [ret |-> TRUE]
                 ELSE [st |-> r.st, sess |-> b.sess, view |-> "login", ret |-> FALSE]

UiRegister(s, new_username, new_password) ==
    /\ view[s] = "login"
    /\ UiRows(db) < MaxRows
    /\ LET r == RegisterRun(St, session[s], new_username, new_password, 1)
       IN  /\ Shows(s, r)
           /\ credentials' =
                IF r.ret THEN credentials \cup {<<new_username, new_password>>}
                ELSE credentials
    /\ rejected' = IF new_username = "" \/ new_password = ""
                   THEN rejected \cup {"register_form_"} ELSE rejected
    /\ UNCHANGED <<last, returned, authed, concVars>>

(* for key in list(st.session_state.keys()): del st.session_state[key] *)
ClearKeepLogin(sess) ==
    [k \in DOMAIN sess \ {"products_viewed", "price_data"} |-> sess[k]]

ClearSession(sess) == [k \in DOMAIN sess \ DOMAIN sess |-> sess[k]]

(* customer_portal or admin_dashboard, the sidebar's Logout pressed *)
LogoutRun(st, sess) ==
    LET b == Start(st, sess)
    IN  RunNoEvent(b.st, ClearSession(b.sess), "Live Market")

UiLogout(s) ==
    /\ view[s] \in {"customer", "admin"}
    /\ Shows(s, LogoutRun(St, session[s]))
    /\ authed' = [authed EXCEPT ![s] = FALSE]
    /\ UNCHANGED <<last, returned, credentials, rejected, concVars>>

ProductNames == {products_data[i].name : i \in 1..Len(products_data)}

(* products[products['name'] == selected_product_name]['id'].iloc[0] *)
ProductIdByName(d, name) ==
    d.products[CHOOSE i \in 1..Len(d.products) :
                 /\ d.products[i].name = name
                 /\ \A j \in 1..(i - 1) : d.products[j].name # name].id

OrderRun_unvalidated(st, sess, selected_product_name, destination, quantity) ==
    LET b == Start(st, sess)
        pg == CustomerPage(b.st, b.sess, "Products & Orders")
        r == place_order(pg.st, pg.sess.user_id,
                         ProductIdByName(pg.st.db, selected_product_name),
                         destination, quantity)
    IN  [st |-> r.st, sess |-> pg.sess, view |-> "customer", ret |-> r.ret]

(* customer_portal, the order form submitted *)
OrderRun(st, sess, selected_product_name, destination, quantity) ==
    LET b == Start(st, sess)
        pg == CustomerPage(b.st, b.sess, "Products & Orders")
    IN  IF destination = ""
        THEN [st |-> pg.st, sess |-> pg.sess, view |-> "customer", ret |-> 0]
        ELSE LET r == place_order(pg.st, pg.sess.user_id,
                                  ProductIdByName(pg.st.db, selected_product_name),
                                  destination, quantity)
             IN  [st |-> r.st, sess |-> pg.sess, view |-> "customer", ret |-> r.ret]

UiPlaceOrder(s, selected_product_name, destination, quantity) ==
    /\ view[s] = "customer"
    /\ PageFits(db, session[s], "Products & Orders")
    /\ UiRows(db) + 2 <= MaxRows
    /\ LET r == OrderRun(St, session[s], selected_product_name, destination, quantity)
       IN  /\ Shows(s, r)
           /\ returned' = IF r.ret # 0 THEN returned \cup {r.ret} ELSE returned
    /\ rejected' = IF destination = "" THEN rejected \cup {"order_form"} ELSE rejected
    /\ UNCHANGED <<last, credentials, authed, concVars>>

(* admin_dashboard, Manage Shipments, the update form submitted *)
UpdateRun(st, sess, selected_order_id, new_location, new_status) ==
    LET b == Start(st, sess)
    IN  IF new_location = ""
        THEN [st |-> b.st, sess |-> b.sess, view |-> "admin"]
        ELSE RunNoEvent(update_shipment_status(b.st, selected_order_id,
                                               new_location, new_status).st,
                        b.sess, "Live Market")

UiUpdateStatus(s, selected_order_id, new_location, new_status) ==
    /\ view[s] = "admin"
    /\ UiRows(db) < MaxRows
    /\ selected_order_id \in {row.id : row \in Range(get_all_orders_for_admin(db))}
    /\ Shows(s, UpdateRun(St, session[s], selected_order_id, new_location, new_status))
    /\ rejected' = IF new_location = "" THEN rejected \cup {"update_shipment_form"}
                   ELSE rejected
    /\ UNCHANGED <<last, returned, credentials, authed, concVars>>

Next ==
    \/ \E s \in Sessions, page \in CustomerPages : UiRender(s, page)
    \/ \E s \in Sessions, a \in LoginInputs : UiLogin(s, a[1], a[2])
    \/ \E s \in Sessions, u \in RegisterNames, p \in RegisterPasswords :
         UiRegister(s, u, p)
    \/ \E s \in Sessions : UiLogout(s)
    \/ \E s \in Sessions, name \in {products_data[3].name},
          destination \in Destinations, quantity \in Quantities :
         UiPlaceOrder(s, name, destination, quantity)
    \/ \E s \in Sessions, o \in OrderIds(db), loc \in Locations, status \in status_options :
         UiUpdateStatus(s, o, loc, status)

Spec == Init /\ [][Next]_vars

----------------------------------------------------------------------------
(* SpecConc: place_order and update_shipment_status called by concurrent    *)
(* sessions (Streamlit runs each session's script in a thread of its own)   *)
(* on the one cached connection, a step per SQL statement.  pc is the       *)
(* statement a session's call is at, frame its arguments and order_id.      *)
(* A statement sees and extends the connection's one open transaction;      *)
(* conn.commit() commits whatever that transaction holds, whoever wrote it. *)

ConcStatuses == {"In Transit", "Delivered"}

ConcOrderInputs == { <<1, 1, "Rotterdam", 100>>, <<1, 3, "Mumbai", 200>> }

Pending(s) == IF pc[s] \in {"po_tracking", "us_update"} THEN 1 ELSE 0

(* Rows written so far plus the rows the calls under way will still write *)
ConcRows ==
    Len(db.users) + Len(db.orders) + Len(db.shipment_tracking) + Pending(1) + Pending(2)

(* setup_database(), the start of any session's run: its last statement is *)
(* conn.commit()                                                            *)
ConcSetup ==
    /\ Leave(setup_database(St, 1))
    /\ credentials' = Seeded(St, credentials)
    /\ UNCHANGED <<last, returned, uiVars, concVars>>

(* place_order: c.execute("INSERT INTO orders ..."); order_id = c.lastrowid *)
PoInsertOrder(s, user_id, product_id, destination, quantity) ==
    /\ db.ready
    /\ pc[s] = "idle"
    /\ ConcRows + 2 <= MaxRows
    /\ db' = SqlInsertOrder(db, user_id, product_id, destination, quantity)
    /\ frame' = [frame EXCEPT ![s] =
                   [NoFrame EXCEPT !.user_id = user_id, !.product_id = product_id,
                                   !.destination = destination, !.quantity = quantity,
                                   !.order_id = lastrowid(db'.orders)]]
    /\ pc' = [pc EXCEPT ![s] = "po_tracking"]
    /\ UNCHANGED <<disk, last, returned, credentials, uiVars>>

(* place_order: c.execute("INSERT INTO shipment_tracking ...") *)
PoInsertTracking(s) ==
    /\ pc[s] = "po_tracking"
    /\ db' = SqlInsertTracking(db, frame[s].order_id, PlacedMsg)
    /\ pc' = [pc EXCEPT ![s] = "po_commit"]
    /\ UNCHANGED <<disk, last, returned, credentials, uiVars, frame>>

(* The same statement raising (sqlite3.OperationalError, say): place_order  *)
(* has no handler, so the exception leaves it: no commit, and no rollback   *)
(* of the order row, which stays in the connection's open transaction.      *)
PoInsertTrackingFails(s) ==
    /\ pc[s] = "po_tracking"
    /\ pc' = [pc EXCEPT ![s] = "idle"]
    /\ frame' = [frame EXCEPT ![s] = NoFrame]
    /\ last' = [NoCall EXCEPT !.op = "place_order_raised", !.actor = s,
                              !.order_id = frame[s].order_id]
    /\ UNCHANGED <<db, disk, returned, credentials, uiVars>>

(* place_order: conn.commit(); return order_id *)
PoCommit(s) ==
    /\ pc[s] = "po_commit"
    /\ Leave([st |-> Commit(St)])
    /\ pc' = [pc EXCEPT ![s] = "idle"]
    /\ frame' = [frame EXCEPT ![s] = NoFrame]
    /\ last' = [NoCall EXCEPT !.op = "place_order", !.actor = s,
                              !.user_id = frame[s].user_id,
                              !.product_id = frame[s].product_id,
                              !.destination = frame[s].destination,
                              !.quantity = frame[s].quantity,
                              !.ret_id = frame[s].order_id]
    /\ returned' = returned \cup {frame[s].order_id}
    /\ UNCHANGED <<credentials, uiVars>>

(* update_shipment_status: c.execute("INSERT INTO shipment_tracking ...") *)
UsInsertTracking(s, order_id, new_location, new_status) ==
    /\ db.ready
    /\ pc[s] = "idle"
    /\ ConcRows < MaxRows
    /\ db' = SqlInsertTracking(db, order_id, TrackingMessage(new_status, new_location))
    /\ frame' = [frame EXCEPT ![s] =
                   [NoFrame EXCEPT !.order_id = order_id, !.location = new_location,
                                   !.status = new_status]]
    /\ pc' = [pc EXCEPT ![s] = "us_update"]
    /\ UNCHANGED <<disk, last, returned, credentials, uiVars>>

(* update_shipment_status: c.execute("UPDATE orders SET status = ? ...") *)
UsUpdate(s) ==
    /\ pc[s] = "us_update"
    /\ db' = SqlUpdateOrderStatus(db, frame[s].order_id, frame[s].status)
    /\ pc' = [pc EXCEPT ![s] = "us_commit"]
    /\ UNCHANGED <<disk, last, returned, credentials, uiVars, frame>>

(* update_shipment_status: conn.commit() *)
UsCommit(s) ==
    /\ pc[s] = "us_commit"
    /\ Leave([st |-> Commit(St)])
    /\ pc' = [pc EXCEPT ![s] = "idle"]
    /\ frame' = [frame EXCEPT ![s] = NoFrame]
    /\ last' = [NoCall EXCEPT !.op = "update_shipment_status", !.actor = s,
                              !.order_id = frame[s].order_id,
                              !.location = frame[s].location,
                              !.status = frame[s].status]
    /\ UNCHANGED <<returned, credentials, uiVars>>

NextConc ==
    \/ ConcSetup
    \/ \E s \in Sessions, a \in ConcOrderInputs : PoInsertOrder(s, a[1], a[2], a[3], a[4])
    \/ \E s \in Sessions : PoInsertTracking(s)
    \/ \E s \in Sessions : PoInsertTrackingFails(s)
    \/ \E s \in Sessions : PoCommit(s)
    \/ \E s \in Sessions, o \in OrderIds(db), status \in ConcStatuses :
         UsInsertTracking(s, o, "Suez", status)
    \/ \E s \in Sessions : UsUpdate(s)
    \/ \E s \in Sessions : UsCommit(s)

SpecConc == Init /\ [][NextConc]_vars

----------------------------------------------------------------------------
(* Properties *)

EventsOf(d, order_id) == {e \in Rows(d.shipment_tracking) : e.order_id = order_id}

OrdersWithId(d, order_id) == {o \in Rows(d.orders) : o.id = order_id}

(* The store d holds the order the latest place_order call describes, with  *)
(* its one placement event.                                                 *)
HoldsPlacedOrder(d, call) ==
    /\ Cardinality(OrdersWithId(d, call.ret_id)) = 1
    /\ \A o \in OrdersWithId(d, call.ret_id) :
         /\ o.status = "Placed"
         /\ o.user_id = call.user_id
         /\ o.product_id = call.product_id
         /\ o.destination_city = call.destination
         /\ o.quantity_barrels = call.quantity
    /\ Cardinality(EventsOf(d, call.ret_id)) = 1
    /\ \A e \in EventsOf(d, call.ret_id) : e.current_location = PlacedMsg

(* C1 as claimed: in no committed state is there an order without its       *)
(* placement tracking event.                                                *)
C1_PlacementAtomic ==
    \A o \in Rows(disk.orders) :
      \E e \in Rows(disk.shipment_tracking) :
        e.order_id = o.id /\ e.current_location = PlacedMsg

(* C2: right after place_order returns an id, the store (as the connection  *)
(* sees it and as committed) holds an order with that id, status Placed,    *)
(* the given user, product, destination and quantity, and exactly one       *)
(* tracking event for it, carrying the placement message; the id was never  *)
(* returned before.                                                         *)
C2_PlaceOrderResult ==
    [][ last'.op = "place_order" =>
          /\ HoldsPlacedOrder(db', last')
          /\ HoldsPlacedOrder(disk', last')
          /\ last'.ret_id \notin returned
          /\ last'.ret_id \in returned' ]_vars

C2_Witness ==
    /\ last.op = "place_order"
    /\ last.ret_id = 2
    /\ \E e \in Rows(db.shipment_tracking) : e.current_location # PlacedMsg

(* C3: update_shipment_status on an existing order, with any of the five    *)
(* statuses and from any current status, sets that order's status, appends  *)
(* exactly one tracking event for it whose message contains the status and  *)
(* the location message, and changes no earlier event and no other order;   *)
(* the order's tracking history grows by exactly one.                       *)
C3_UpdateStatusEffect ==
    [][ (last'.op = "update_shipment_status" /\ last'.order_id \in OrderIds(db)
         /\ last'.status \in status_options) =>
          LET o == last'.order_id
              n == Len(db.shipment_tracking)
          IN  /\ Len(db'.orders) = Len(db.orders)
              /\ \A i \in 1..Len(db.orders) :
                   db'.orders[i] =
                     IF db.orders[i].id = o
                     THEN [db.orders[i] EXCEPT !.status = last'.status]
                     ELSE db.orders[i]
              /\ Len(db'.shipment_tracking) = n + 1
              /\ SubSeq(db'.shipment_tracking, 1, n) = db.shipment_tracking
              /\ db'.shipment_tracking[n + 1].order_id = o
              /\ Contains(db'.shipment_tracking[n + 1].current_location, last'.status)
              /\ Contains(db'.shipment_tracking[n + 1].current_location, last'.location)
              /\ Len(get_tracking_info(db', o)) = Len(get_tracking_info(db, o)) + 1
              /\ disk' = db' ]_vars

C3_Witness ==
    /\ last.op = "update_shipment_status"
    /\ last.status = "In Transit"
    /\ \E e \in EventsOf(db, last.order_id) : Contains(e.current_location, "Delivered")

C3_WitnessTwoOrders ==
    /\ last.op = "update_shipment_status"
    /\ Len(db.orders) = 2
    /\ last.order_id = 1

(* C4 as claimed: after place_order(userId, productId, destination,         *)
(* quantity) with any userId and productId, the order is listed by          *)
(* get_user_orders(userId) with that destination, quantity and the          *)
(* product's name, and by get_user_orders(v) for no other v.                *)
AllUserIds(d) == {o.user_id : o \in Rows(d.orders)} \cup {u.id : u \in Rows(d.users)}

C4_RoundTrip ==
    last.op = "place_order" =>
      /\ \E row \in Range(get_user_orders(db, last.user_id)) :
           /\ row.id = last.ret_id
           /\ row.destination_city = last.destination
           /\ row.quantity_barrels = last.quantity
           /\ \E p \in Rows(db.products) :
                p.id = last.product_id /\ row.product_name = p.name
      /\ \A v \in AllUserIds(db) \ {last.user_id} :
           \A row \in Range(get_user_orders(db, v)) : row.id # last.ret_id

(* C5 as claimed: every order's user_id is the id of an existing user and   *)
(* its product_id the id of an existing product.                            *)
C5_ForeignKeys ==
    \A o \in Rows(db.orders) : HasUser(db, o) /\ HasProduct(db, o)

(* C6: register_user for a username already in the users table returns      *)
(* False and leaves the users table (rows, count, stored hash and role)     *)
(* unchanged; no two users ever share a username.                           *)
UsernamesUnique(d) ==
    \A i, j \in 1..Len(d.users) : d.users[i].username = d.users[j].username => i = j

C6_UsernamesUnique ==
    /\ [](UsernamesUnique(db) /\ UsernamesUnique(disk))
    /\ [][ (last'.op = "register_user" /\ UsernameTaken(db, last'.username)) =>
             /\ ~last'.ret_ok
             /\ db'.users = db.users
             /\ disk'.users = disk.users ]_vars

C6_Witness ==
    /\ last.op = "register_user"
    /\ last.username = "alice"
    /\ ~last.ret_ok

(* C7: validate_login(u, p) returns a summary exactly when a user named u   *)
(* exists and p is the password it was seeded or registered with; the       *)
(* summary carries that user's id, name and stored role; the call changes   *)
(* no stored data.                                                          *)
C7_Authenticate ==
    /\ [](last.op = "validate_login" =>
            /\ (last.ret_user # {}) <=>
                 (/\ UsernameTaken(db, last.username)
                  /\ <<last.username, last.password>> \in credentials)
            /\ \A r \in last.ret_user :
                 \E u \in Rows(db.users) :
                   /\ u.username = last.username
                   /\ r = [id |-> u.id, username |-> u.username, role |-> u.role])
    /\ [][ last'.op = "validate_login" => (db' = db /\ disk' = disk) ]_vars

C7_Witness ==
    /\ last.op = "validate_login"
    /\ last.username = "alice"
    /\ last.ret_user # {}

C7_WitnessWrong ==
    /\ last.op = "validate_login"
    /\ last.username = "alice"
    /\ UsernameTaken(db, "alice")
    /\ last.ret_user = {}

(* C8: once setup_database has run, the store holds exactly the three       *)
(* seeded products and exactly one user named admin, whose role is admin;   *)
(* every later run of setup_database, whatever was registered, ordered,     *)
(* updated or viewed in between, leaves products and users unchanged.       *)
SeededStore(d) ==
    /\ Len(d.products) = Len(products_data)
    /\ \A i \in 1..Len(d.products) : d.products[i].name = products_data[i].name
    /\ Cardinality({i \in 1..Len(d.users) : d.users[i].username = AdminName}) = 1
    /\ \A u \in Rows(d.users) : u.username = AdminName => u.role = "admin"

C8_SeedingIdempotent ==
    /\ [](db.ready => SeededStore(db) /\ SeededStore(disk))
    /\ [][ (last'.op = "setup_database" /\ db.ready) =>
             /\ db'.products = db.products
             /\ db'.users = db.users
             /\ disk'.products = disk.products
             /\ disk'.users = disk.users ]_vars

C8_Witness ==
    /\ last.op = "setup_database"
    /\ Len(db.orders) > 0
    /\ Len(db.users) > 1
    /\ Len(db.product_interactions) > 0

(* C9: Logout, from the customer or the admin view and whatever the session *)
(* holds, deletes every key of the session state: after the rerun it        *)
(* starts, the session holds nothing but main()'s logged_in = False and     *)
(* shows the login page; a session shows the customer or admin view only    *)
(* after a login of its own with valid credentials, and not after its       *)
(* logout.                                                                  *)
C9_Logout ==
    /\ [][ \A s \in Sessions :
             UiLogout(s) =>
               /\ session'[s] = [logged_in |-> FALSE]
               /\ view'[s] = "login"
               /\ \A t \in Sessions \ {s} : session'[t] = session[t] /\ view'[t] = view[t]
         ]_vars
    /\ [](\A s \in Sessions : view[s] \in {"customer", "admin"} => authed[s])

C9_Witness ==
    /\ view[1] = "login"
    /\ session[1] = [logged_in |-> FALSE]
    /\ view[2] = "none"
    /\ Len(db.product_interactions) > 0
    /\ Len(db.orders) > 0

(* C10: no run of a session that is not an admin's (register, login,        *)
(* browse, order, track, logout) changes an existing order; an existing     *)
(* order changes only in its status and only by an admin's status update;   *)
(* no order is ever deleted; every status is one of the five.               *)
IsAdmin(s) == Has(session[s], "role") /\ session[s].role = "admin" /\ view[s] = "admin"

OtherThanUpdate(s) ==
    \/ \E page \in CustomerPages : UiRender(s, page)
    \/ \E a \in LoginInputs : UiLogin(s, a[1], a[2])
    \/ \E u \in RegisterNames, p \in RegisterPasswords : UiRegister(s, u, p)
    \/ UiLogout(s)
    \/ \E name \in ProductNames, destination \in Destinations, quantity \in Quantities :
         UiPlaceOrder(s, name, destination, quantity)

C10_StatusOnlyByAdmin ==
    /\ [](\A o \in Rows(db.orders) : o.status \in status_options)
    /\ [][ /\ Len(db'.orders) >= Len(db.orders)
           /\ \A i \in 1..Len(db.orders) :
                db'.orders[i] # db.orders[i] =>
                  /\ [db'.orders[i] EXCEPT !.status = db.orders[i].status] = db.orders[i]
                  /\ \E s \in Sessions, loc \in Locations, status \in status_options :
                       IsAdmin(s) /\ UiUpdateStatus(s, db.orders[i].id, loc, status)
           /\ (\E s \in Sessions : ~IsAdmin(s) /\ OtherThanUpdate(s)) =>
                SubSeq(db'.orders, 1, Len(db.orders)) = db.orders
         ]_vars

C10_Witness ==
    /\ view[1] = "customer"
    /\ Has(session[1], "products_viewed")
    /\ \E o \in Rows(db.orders) : o.status = "Delivered" /\ o.user_id = session[1].user_id

(* C11: a status update submitted with an empty location message, an order  *)
(* submitted with an empty destination, and a registration submitted with   *)
(* an empty username or password each leave the users, orders and           *)
(* shipment_tracking tables exactly as they were, in what the connection    *)
(* sees and in what is committed.                                           *)
ValidatedTables(d) == <<d.users, d.orders, d.shipment_tracking>>

RejectedSubmission(s) ==
    \/ \E u \in RegisterNames, p \in RegisterPasswords :
         (u = "" \/ p = "") /\ UiRegister(s, u, p)
    \/ \E name \in ProductNames, quantity \in Quantities :
         UiPlaceOrder(s, name, "", quantity)
    \/ \E o \in OrderIds(db), status \in status_options :
         UiUpdateStatus(s, o, "", status)

C11_RejectedNoEffect ==
    [][ (\E s \in Sessions : RejectedSubmission(s)) =>
          /\ ValidatedTables(db') = ValidatedTables(db)
          /\ ValidatedTables(disk') = ValidatedTables(disk) ]_vars

C11_Witness ==
    /\ rejected = {"register_form_", "order_form", "update_shipment_form"}
    /\ Len(db.users) > 1
    /\ Len(db.orders) > 0
    /\ \E e \in Rows(db.shipment_tracking) : e.current_location # PlacedMsg

(* C12: every account the registration form creates has role customer; no   *)
(* step changes or removes a stored user's role; so the seeded admin is     *)
(* the only user with role admin in every reachable state; and a session    *)
(* comes to show the admin view only by its own login with the admin's      *)
(* name and password, and shows it only while logged in as that user.       *)
AdminsOf(d) == {u \in Rows(d.users) : u.role = "admin"}

RolesKept(d, e) ==
    /\ Len(e.users) >= Len(d.users)
    /\ \A i \in 1..Len(d.users) :
         /\ e.users[i].id = d.users[i].id
         /\ e.users[i].username = d.users[i].username
         /\ e.users[i].role = d.users[i].role

C12_NoPrivilegeEscalation ==
    /\ [](\A d \in {db, disk} :
            /\ \A u \in AdminsOf(d) : u.username = AdminName
            /\ Cardinality(AdminsOf(d)) <= 1
            /\ d.ready => Cardinality(AdminsOf(d)) = 1)
    /\ [](\A s \in Sessions :
            view[s] = "admin" =>
              /\ authed[s]
              /\ session[s].logged_in
              /\ session[s].username = AdminName
              /\ \E u \in AdminsOf(db) : u.id = session[s].user_id)
    /\ [][ /\ RolesKept(db, db')
           /\ RolesKept(disk, disk')
           /\ \A s \in Sessions :
                /\ (\E u \in RegisterNames, p \in RegisterPasswords : UiRegister(s, u, p)) =>
                     \A i \in (Len(db.users) + 1)..Len(db'.users) :
                       db'.users[i].role = "customer"
                /\ (view'[s] = "admin" /\ view[s] # "admin") =>
                     UiLogin(s, AdminName, AdminPass)
         ]_vars

C12_Witness ==
    /\ view[1] = "admin"
    /\ view[2] = "customer"
    /\ session[2].username = "alice"
    /\ session[2].role = "customer"
    /\ "register_form_" \in rejected

(* C13 as claimed: when no place_order or update_shipment_status call is    *)
(* under way, each order's status is the status named in the tracking       *)
(* event most recently appended for it, or Placed when no status change     *)
(* has been recorded for it.                                                *)
StatusChangesOf(d, order_id) ==
    LET IsChange(e) == e.order_id = order_id /\ e.current_location # PlacedMsg
    IN  SelectSeq(d.shipment_tracking, IsChange)

(* The status a tracking message names: f"Status changed to '{new_status}'" *)
StatusNamed(message) == message[2]

LedgerStatus(d, order_id) ==
    LET changes == StatusChangesOf(d, order_id)
    IN  IF changes = <<>> THEN "Placed"
        ELSE StatusNamed(changes[Len(changes)].current_location)

AllReturned == \A s \in Sessions : pc[s] = "idle"

C13_LedgerAgreesWithStatus ==
    AllReturned =>
      \A o \in Rows(db.orders) : o.status = LedgerStatus(db, o.id)

====
